---- MODULE Spec2Model ----
(***************************************************************************)
(* A model of the execution-coordination core of the rollup node:          *)
(*   - BuildTask::execute over the Engine API and EngineState              *)
(*     (crates/node/engine/src/task_queue/tasks/build/task.rs), and        *)
(*   - the DerivationActor event loop with its DerivationState             *)
(*     (crates/node/service/src/actors/derivation.rs).                     *)
(* The two subsystems have their own variables and their own               *)
(* specifications (SpecBuild, SpecActor).                                  *)
(***************************************************************************)
EXTENDS Integers, Sequences, FiniteSets, TLC

\* ---------------------------------------------------------------- bounds
\* Block numbers of the heads range over 0..MaxNum.
MaxNum == 2
\* Attribute transaction lists have at most MaxTxs transactions.
MaxTxs == 1
\* Attribute timestamps range over 0..MaxTime.
MaxTime == 4
\* Nested executions explored (the code itself has no such limit).
MaxDepth == 3
\* Signals the engine sends to the derivation actor in one run.
MaxSignals == 1
\* Payload attributes the pipeline prepares in one run.
MaxAttrs == 2
\* L1 origins the pipeline may report: 0..MaxOrigin.
MaxOrigin == 1
\* Capacity of attributes_out and reset_request_tx (mpsc::channel(16)).
ChannelCap == 16

\* ------------------------------------------------------- Build Task state
VARIABLES
    state,        \* EngineState: the five heads
    task,         \* the BuildTask under execution (its fields)
    stack,        \* call stack of execute() frames (nested re-attempts on top)
    log,          \* history: engine interactions, in the order they happened
    payload_rx    \* envelopes received on the outbound payload channel

bvars == <<state, task, stack, log, payload_rx>>

\* -------------------------------------------------- Derivation Actor state
VARIABLES
    pc,                    \* where start() is: "select", inside process(), or "done"
    exit,                  \* what start() returned
    derivation_idle,       \* DerivationState.derivation_idle
    waiting_for_signal,    \* DerivationState.waiting_for_signal
    pipeline,              \* what the actor sees of the pipeline
    payload_attrs,         \* the attributes process() is sending
    l2_safe_head,          \* the safe head the stepping loop has read for its step
    cancellation,          \* the cancellation token has fired
    derivation_signal_rx,  \* mpsc of Signal: its queue, whether its senders are gone
    l1_head_updates,       \* watch: unseen change, sender gone
    engine_l2_safe_head,   \* watch: value, unseen change, sender gone
    el_sync_complete_rx,   \* oneshot: "pending", "complete", "terminated"
    attributes_out,        \* mpsc of OpAttributesWithParent: what was sent on it
    reset_request_tx,      \* mpsc of (): the units sent on it
    signals_sent,          \* signals the engine has sent so far
    wake,                  \* history: the last wake of select!
    reorg,                 \* history: the reset request in progress
    step,                  \* history: the last iteration of the stepping loop
    stepped_on,            \* history: the watch's value has been given to a step
    delivery,              \* history: the last signal handed to the pipeline
    observe                \* the histories a specification keeps

avars == <<pc, exit, derivation_idle, waiting_for_signal, pipeline, payload_attrs,
           l2_safe_head,
           cancellation, derivation_signal_rx, l1_head_updates, engine_l2_safe_head,
           el_sync_complete_rx, attributes_out, reset_request_tx, signals_sent,
           wake, reorg, step, stepped_on, observe, delivery>>

vars == <<bvars, avars>>

\* ------------------------------------------------------------ data model
\* A block reference; the record doubles as the block's hash.  Blocks of the
\* chain that exists before the task runs carry the marker body <<"C">>.
ChainBlock(n) == [number |-> n, txs |-> <<"C">>]

TxKinds == {"D", "U"}       \* protocol deposit, user transaction

TxLists == UNION {[1..n -> TxKinds] : n \in 0..MaxTxs}

RECURSIVE DepositsOf(_)
DepositsOf(txs) ==
    IF txs = <<>> THEN <<>>
    ELSE IF Head(txs) = "D" THEN <<"D">> \o DepositsOf(Tail(txs))
    ELSE DepositsOf(Tail(txs))

\* OpAttributesWithParent::is_deposits_only
is_deposits_only(attrs) == \A i \in 1..Len(attrs.txs) : attrs.txs[i] = "D"

\* OpAttributesWithParent::as_deposits_only: only the deposits are retained
as_deposits_only(attrs) == [attrs EXCEPT !.txs = DepositsOf(attrs.txs)]

\* RollupConfig: activation timestamps of the forks.
cfg ==
    [canyon_time |-> 1, ecotone_time |-> 2, holocene_time |-> 3,
     isthmus_time |-> 4, interop_time |-> 5]

is_canyon_active(t) == t >= cfg.canyon_time
is_ecotone_active(t) == t >= cfg.ecotone_time
is_holocene_active(t) == t >= cfg.holocene_time
is_isthmus_active(t) == t >= cfg.isthmus_time
is_interop_active(t) == t >= cfg.interop_time

\* EngineForkchoiceVersion::from_cfg
EngineForkchoiceVersion_from_cfg(t) ==
    IF is_ecotone_active(t) THEN "V3"
    ELSE IF is_canyon_active(t) THEN "V2"
    ELSE "V1"

\* EngineGetPayloadVersion::from_cfg
EngineGetPayloadVersion_from_cfg(t) ==
    IF is_isthmus_active(t) THEN "V4"
    ELSE IF is_ecotone_active(t) THEN "V3"
    ELSE "V2"

\* EngineState::create_forkchoice_state
create_forkchoice_state(s) ==
    [head_block_hash |-> s.unsafe_head,
     safe_block_hash |-> s.safe_head,
     finalized_block_hash |-> s.finalized_head]

\* ------------------------------------------------------- results, errors
Ok == [tag |-> "Ok", msg |-> ""]
Err(name) == [tag |-> name, msg |-> ""]
ErrMsg(name, m) == [tag |-> name, msg |-> m]
NoResult == [tag |-> "Pending", msg |-> ""]

ValidationErrors == {"bad tx", "bad block"}

\* PayloadStatusEnum
PayloadStatuses ==
    {[status |-> s, validation_error |-> ""] : s \in {"Valid", "Syncing", "Accepted"}}
    \cup {[status |-> "Invalid", validation_error |-> e] : e \in ValidationErrors}

NoPayloadId == [parent |-> ChainBlock(0), txs |-> <<"none">>]

\* The engine's answers to engine_forkchoiceUpdated with attributes: a transport
\* failure, or a payload status with an optional payload id.  The id stands for
\* the build job: the head the engine was told to build on and the transactions.
FcuReplies(fcs, attrs) ==
    {[rpc |-> "Err", payload_status |-> [status |-> "Valid", validation_error |-> ""],
      payload_id |-> NoPayloadId]}
    \cup {[rpc |-> "Ok", payload_status |-> ps, payload_id |-> NoPayloadId] :
            ps \in PayloadStatuses}
    \cup {[rpc |-> "Ok", payload_status |-> [status |-> "Valid", validation_error |-> ""],
           payload_id |-> [parent |-> fcs.head_block_hash, txs |-> attrs.txs]]}

\* The payload the engine built for a payload id.
BuiltPayload(id) ==
    [number |-> id.parent.number + 1, parent_hash |-> id.parent, txs |-> id.txs]

\* L2BlockInfo::from_payload_and_genesis
from_payload_and_genesis(payload) == [number |-> payload.number, txs |-> payload.txs]

\* ------------------------------------------------------------ EngineState
\* The engine states a task may be handed.  Unsafe and safe head are ordered;
\* the cross-unsafe head stands at the unsafe head and the local-safe head at
\* the safe head, where they are promoted to without interop; the finalized
\* head, moved by L1 finality, may be anywhere (the entry check of execute
\* exists for that).
EngineStates ==
    {[unsafe_head |-> ChainBlock(u), cross_unsafe_head |-> ChainBlock(u),
      local_safe_head |-> ChainBlock(s), safe_head |-> ChainBlock(s),
      finalized_head |-> ChainBlock(f)] :
        <<u, s, f>> \in {q \in (0..MaxNum) \X (0..MaxNum) \X (0..MaxNum) : q[1] >= q[2]}}

\* The head tower, by block number.
TowerOrdered(s) ==
    /\ s.unsafe_head.number >= s.cross_unsafe_head.number
    /\ s.cross_unsafe_head.number >= s.local_safe_head.number
    /\ s.local_safe_head.number >= s.safe_head.number
    /\ s.safe_head.number >= s.finalized_head.number

\* OpAttributesWithParent: the parent block, the transactions, the timestamp.
Attributes ==
    [parent : {ChainBlock(p) : p \in 0..(MaxNum - 1)},
     txs : TxLists,
     timestamp : 0..MaxTime]

\* BuildTask::new
Tasks ==
    [attributes : Attributes,
     is_attributes_derived : BOOLEAN,
     payload_tx : {"None", "Some"}]

\* ------------------------------------------------------------ call frames
NoForkchoice == create_forkchoice_state(
    [unsafe_head |-> ChainBlock(0), safe_head |-> ChainBlock(0),
     finalized_head |-> ChainBlock(0)])

NoEnvelope ==
    [version |-> "none", parent_beacon_block_root |-> FALSE,
     payload |-> BuiltPayload(NoPayloadId)]

\* A frame of execute(): the task's attributes, where it is, the state it was
\* entered with and its locals.
NewFrame(attrs, s) ==
    [attributes |-> attrs, pc |-> "execute", entry |-> s,
     forkchoice |-> NoForkchoice, payload_id |-> NoPayloadId,
     envelope |-> NoEnvelope, new_block_ref |-> ChainBlock(0),
     reattempt |-> NoResult, ret |-> NoResult]

Top == stack[Len(stack)]
SetTop(f) == [stack EXCEPT ![Len(stack)] = f]
Return(f, r) == [f EXCEPT !.pc = "done", !.ret = r]

\* An entry of the history: the interaction, the method version used, the frame
\* of execute that made it, whether the parent beacon block root went along, the
\* answer (status and validation error), whether the step succeeded, and
\* whether the frame was entered with the finalized head ahead of the unsafe one.
Event(op, ver, pbbr, status, msg, ok) ==
    [op |-> op, ver |-> ver, frame |-> Len(stack), pbbr |-> pbbr,
     status |-> status, msg |-> msg, ok |-> ok,
     entry_ahead |-> Top.entry.unsafe_head.number < Top.entry.finalized_head.number]

\* The status a reply to the forkchoice update shows in the history.
FcuStatus(reply) ==
    IF reply.rpc = "Err" THEN "RpcErr"
    ELSE IF reply.payload_status.status = "Valid" /\ reply.payload_id = NoPayloadId
    THEN "ValidNoId"
    ELSE reply.payload_status.status

\* -------------------------------------------------------- execute: entry
\* Mutant: the check compares the operands the wrong way round.
FinalizedAheadOfUnsafe_Swapped(s) == s.finalized_head.number < s.unsafe_head.number

\* execute, lines 317-323: the sanity check on the heads
FinalizedAheadOfUnsafe(s) == s.unsafe_head.number < s.finalized_head.number

\* Mutant: the snapshot of the state is sent as it is.
BuildForkchoice_NoOverride(s, attrs) == create_forkchoice_state(s)

\* execute, lines 327-328: the forkchoice sent with the attributes
BuildForkchoice(s, attrs) ==
    [create_forkchoice_state(s) EXCEPT !.head_block_hash = attrs.parent]

\* Mutant: SYNCING shares the arm of VALID.
StartBuildResult_SyncingAsValid(reply) ==
    IF reply.rpc = "Err" THEN ErrMsg("ForkchoiceUpdateFailed", "rpc")
    ELSE IF reply.payload_status.status \in {"Valid", "Syncing"} THEN
        IF reply.payload_id = NoPayloadId THEN Err("MissingPayloadId") ELSE Ok
    ELSE IF reply.payload_status.status = "Invalid" THEN
        ErrMsg("ForkchoiceUpdateFailed", reply.payload_status.validation_error)
    ELSE ErrMsg("UnexpectedPayloadStatus", reply.payload_status.status)

\* start_build, lines 103-136: what the reply to the forkchoice update means
StartBuildResult(reply) ==
    IF reply.rpc = "Err" THEN ErrMsg("ForkchoiceUpdateFailed", "rpc")
    ELSE IF reply.payload_status.status = "Valid" THEN
        IF reply.payload_id = NoPayloadId THEN Err("MissingPayloadId") ELSE Ok
    ELSE IF reply.payload_status.status = "Invalid" THEN
        ErrMsg("ForkchoiceUpdateFailed", reply.payload_status.validation_error)
    ELSE IF reply.payload_status.status = "Syncing" THEN Err("EngineSyncing")
    ELSE ErrMsg("UnexpectedPayloadStatus", reply.payload_status.status)

\* start_build, lines 78-102: the forkchoice method the attributes go out with
StartBuildVersion(attrs) == EngineForkchoiceVersion_from_cfg(attrs.timestamp)

\* execute up to and including start_build (lines 314-335).
StartBuild ==
    /\ Len(stack) > 0
    /\ Top.pc = "execute"
    /\ IF FinalizedAheadOfUnsafe(state)
       THEN /\ stack' = SetTop(Return(Top, Err("FinalizedAheadOfUnsafe")))
            /\ UNCHANGED log
       ELSE \E reply \in FcuReplies(BuildForkchoice(state, Top.attributes), Top.attributes) :
              LET fcs == BuildForkchoice(state, Top.attributes)
                  res == StartBuildResult(reply)
              IN /\ log' = Append(log, Event("fcu_attrs", StartBuildVersion(Top.attributes),
                                             FALSE, FcuStatus(reply),
                                             reply.payload_status.validation_error,
                                             FcuStatus(reply) = "Valid"))
                 /\ stack' = SetTop(
                        IF res = Ok
                        THEN [Top EXCEPT !.pc = "get_payload", !.forkchoice = fcs,
                                         !.payload_id = reply.payload_id]
                        ELSE Return([Top EXCEPT !.forkchoice = fcs], res))
    /\ UNCHANGED <<state, task, payload_rx, avars>>

\* ---------------------------------------------- fetch_and_import_payload
\* fetch_and_import_payload, line 166
GetPayloadVersion(attrs) == EngineGetPayloadVersion_from_cfg(attrs.timestamp)

\* The payload fields engine_getPayloadV2 may answer with.
PayloadFields(ver) == IF ver = "V2" THEN {"V1", "V2"} ELSE {ver}

\* fetch_and_import_payload, lines 167-257: the envelope made of the fetched
\* payload, in the version the payload came in
MakeEnvelope(field, payload) ==
    [version |-> field, parent_beacon_block_root |-> field \in {"V3", "V4"},
     payload |-> payload]

\* Mutant: the V4 arm imports with engine_newPayloadV3.
NewPayloadCall_V4AsV3(envelope) ==
    [ver |-> IF envelope.version = "V4" THEN "V3" ELSE envelope.version,
     pbbr |-> envelope.version \in {"V3", "V4"}]

\* fetch_and_import_payload, lines 173-178, 197-202, 227, 242: the newPayload
\* method an envelope is imported with, and whether the beacon root goes along
NewPayloadCall(envelope) ==
    [ver |-> envelope.version, pbbr |-> envelope.version \in {"V3", "V4"}]

\* engine_getPayload (lines 169-172, 193-196, 217-220).
GetPayload ==
    /\ Len(stack) > 0
    /\ Top.pc = "get_payload"
    /\ \E rpc \in {"Ok", "Err"} :
        \E field \in PayloadFields(GetPayloadVersion(Top.attributes)) :
          /\ (rpc = "Err") => field = GetPayloadVersion(Top.attributes)
          /\ log' = Append(log, Event("get_payload", GetPayloadVersion(Top.attributes),
                                      FALSE, IF rpc = "Ok" THEN field ELSE "RpcErr", "",
                                      rpc = "Ok"))
          /\ stack' = SetTop(
                IF rpc = "Ok"
                THEN [Top EXCEPT !.pc = "new_payload",
                                 !.envelope = MakeEnvelope(field, BuiltPayload(Top.payload_id))]
                ELSE Return(Top, ErrMsg("GetPayloadFailed", "rpc")))
    /\ UNCHANGED <<state, task, payload_rx, avars>>

\* Mutant: every status but INVALID counts as imported.
ImportDecision_AcceptedImports(attrs, ps) ==
    IF ps.status = "Invalid" THEN
        IF is_deposits_only(attrs)
        THEN [do |-> "fail", err |-> Err("DepositOnlyPayloadFailed")]
        ELSE IF is_holocene_active(attrs.timestamp)
        THEN [do |-> "reattempt", err |-> Ok]
        ELSE [do |-> "fail", err |-> ErrMsg("NewPayloadFailed", ps.validation_error)]
    ELSE [do |-> "import", err |-> Ok]

\* Mutant: the re-attempt is not gated on Holocene.
ImportDecision_NoHoloceneGate(attrs, ps) ==
    IF ps.status \in {"Valid", "Syncing"} THEN [do |-> "import", err |-> Ok]
    ELSE IF ps.status = "Invalid" THEN
        IF is_deposits_only(attrs)
        THEN [do |-> "fail", err |-> Err("DepositOnlyPayloadFailed")]
        ELSE [do |-> "reattempt", err |-> Ok]
    ELSE [do |-> "fail", err |-> ErrMsg("UnexpectedPayloadStatus", ps.status)]

\* Mutant: ACCEPTED shares the arm of INVALID.
ImportDecision_AcceptedAsInvalid(attrs, ps) ==
    IF ps.status \in {"Valid", "Syncing"} THEN [do |-> "import", err |-> Ok]
    ELSE IF is_deposits_only(attrs)
    THEN [do |-> "fail", err |-> Err("DepositOnlyPayloadFailed")]
    ELSE IF is_holocene_active(attrs.timestamp)
    THEN [do |-> "reattempt", err |-> Ok]
    ELSE [do |-> "fail", err |-> ErrMsg("NewPayloadFailed", ps.validation_error)]

\* Mutant: only VALID counts as imported.
ImportDecision_SyncingUnexpected(attrs, ps) ==
    IF ps.status = "Valid" THEN [do |-> "import", err |-> Ok]
    ELSE IF ps.status = "Invalid" THEN
        IF is_deposits_only(attrs)
        THEN [do |-> "fail", err |-> Err("DepositOnlyPayloadFailed")]
        ELSE IF is_holocene_active(attrs.timestamp)
        THEN [do |-> "reattempt", err |-> Ok]
        ELSE [do |-> "fail", err |-> ErrMsg("NewPayloadFailed", ps.validation_error)]
    ELSE [do |-> "fail", err |-> ErrMsg("UnexpectedPayloadStatus", ps.status)]

\* Mutant: a rejected payload counts as imported.
ImportDecision_InvalidImports(attrs, ps) ==
    IF ps.status \in {"Valid", "Syncing", "Invalid"} THEN [do |-> "import", err |-> Ok]
    ELSE [do |-> "fail", err |-> ErrMsg("UnexpectedPayloadStatus", ps.status)]

\* fetch_and_import_payload, lines 259-308: what the newPayload status means
ImportDecision(attrs, ps) ==
    IF ps.status \in {"Valid", "Syncing"} THEN [do |-> "import", err |-> Ok]
    ELSE IF ps.status = "Invalid" THEN
        IF is_deposits_only(attrs)
        THEN [do |-> "fail", err |-> Err("DepositOnlyPayloadFailed")]
        ELSE IF is_holocene_active(attrs.timestamp)
        THEN [do |-> "reattempt", err |-> Ok]
        ELSE [do |-> "fail", err |-> ErrMsg("NewPayloadFailed", ps.validation_error)]
    ELSE [do |-> "fail", err |-> ErrMsg("UnexpectedPayloadStatus", ps.status)]

\* Mutant: the re-attempt is made with the rejected attributes as they are.
ReattemptAttributes_Unchanged(attrs) == attrs

\* fetch_and_import_payload, lines 281-287: the task of the re-attempt
ReattemptAttributes(attrs) == as_deposits_only(attrs)

\* Mutant: the safe heads are set whether or not the attributes are derived.
CommitHeads_AlwaysSafe(s, new, derived) ==
    [s EXCEPT !.unsafe_head = new, !.cross_unsafe_head = new,
              !.local_safe_head = new, !.safe_head = new]

\* execute, lines 350-356: the head updates of a commit
CommitHeads(s, new, derived) ==
    IF derived
    THEN [s EXCEPT !.unsafe_head = new, !.cross_unsafe_head = new,
                   !.local_safe_head = new, !.safe_head = new]
    ELSE [s EXCEPT !.unsafe_head = new, !.cross_unsafe_head = new]

\* engine_newPayload, the reading of its status and, for an imported payload,
\* the head updates of execute (lines 173-308 and 339-356).
NewPayload ==
    /\ Len(stack) > 0
    /\ Top.pc = "new_payload"
    /\ LET call == NewPayloadCall(Top.envelope) IN
       \/ \* transport failure
          /\ log' = Append(log, Event("new_payload", call.ver, call.pbbr, "RpcErr", "", FALSE))
          /\ stack' = SetTop(Return(Top, ErrMsg("NewPayloadFailed", "rpc")))
          /\ UNCHANGED state
       \/ \E ps \in PayloadStatuses, lifted \in BOOLEAN :
            LET d == ImportDecision(Top.attributes, ps)
                new == from_payload_and_genesis(Top.envelope.payload)
            IN
            /\ (d.do # "import") => lifted
            /\ IF d.do = "import" /\ lifted THEN
                  /\ log' = log \o <<Event("new_payload", call.ver, call.pbbr, ps.status,
                                           ps.validation_error,
                                           ps.status \in {"Valid", "Syncing"}),
                                     Event("set_heads", "none", FALSE, "", "", TRUE)>>
                  /\ state' = CommitHeads(state, new, task.is_attributes_derived)
                  /\ stack' = SetTop([Top EXCEPT !.pc = "canonicalize", !.new_block_ref = new])
               ELSE IF d.do = "import" THEN
                  /\ log' = Append(log, Event("new_payload", call.ver, call.pbbr, ps.status,
                                              ps.validation_error, FALSE))
                  /\ stack' = SetTop(Return(Top, Err("FromBlock")))
                  /\ UNCHANGED state
               ELSE IF d.do = "reattempt" THEN
                  /\ Len(stack) < MaxDepth
                  /\ log' = Append(log, Event("new_payload", call.ver, call.pbbr, ps.status,
                                              ps.validation_error, FALSE))
                  /\ stack' = Append(SetTop([Top EXCEPT !.pc = "reattempt"]),
                                     NewFrame(ReattemptAttributes(Top.attributes), state))
                  /\ UNCHANGED state
               ELSE
                  /\ log' = Append(log, Event("new_payload", call.ver, call.pbbr, ps.status,
                                              ps.validation_error, FALSE))
                  /\ stack' = SetTop(Return(Top, d.err))
                  /\ UNCHANGED state
    /\ UNCHANGED <<task, payload_rx, avars>>

\* Mutant: the re-attempt's success is returned as it is.
ReattemptResult_PropagateOk(inner) ==
    IF inner = Ok THEN Ok
    ELSE Err("DepositOnlyPayloadReattemptFailed")

\* Mutant: the flush is reported whatever the re-attempt returned.
ReattemptResult_AlwaysFlush(inner) == Err("HoloceneInvalidFlush")

\* fetch_and_import_payload, lines 290-296: what the re-attempt's result means
ReattemptResult(inner) ==
    IF inner = Ok THEN Err("HoloceneInvalidFlush")
    ELSE Err("DepositOnlyPayloadReattemptFailed")

\* The nested execute returns into fetch_and_import_payload (lines 288-296),
\* whose error execute propagates (line 347).
ReattemptReturn ==
    /\ Len(stack) > 1
    /\ Top.pc = "done"
    /\ LET outer == stack[Len(stack) - 1]
           rest == SubSeq(stack, 1, Len(stack) - 2)
       IN stack' = Append(rest, Return([outer EXCEPT !.reattempt = Top.ret],
                                        ReattemptResult(Top.ret)))
    /\ UNCHANGED <<state, task, log, payload_rx, avars>>

\* ------------------------------------------------- canonicalize and send
\* ForkchoiceTask::execute: VALID is success, SYNCING and INVALID fail.
ForkchoiceTaskResult(status) ==
    IF status = "Valid" THEN Ok
    ELSE IF status = "Syncing" THEN Err("ForkchoiceTask::EngineSyncing")
    ELSE Err("ForkchoiceTask::Failed")

\* execute, lines 358-364 and 379: the canonicalizing forkchoice update; with
\* no outbound channel configured execute is over.
Canonicalize ==
    /\ Len(stack) > 0
    /\ Top.pc = "canonicalize"
    /\ \E status \in {"Valid", "Syncing", "Invalid"} :
         LET res == ForkchoiceTaskResult(status) IN
         /\ log' = Append(log, Event("fcu_canon", "none", FALSE, status, "", status = "Valid"))
         /\ stack' = SetTop(
               IF res # Ok THEN Return(Top, res)
               ELSE IF task.payload_tx = "None" THEN Return(Top, Ok)
               ELSE [Top EXCEPT !.pc = "send"])
    /\ UNCHANGED <<state, task, payload_rx, avars>>

\* Mutant: a closed channel goes unnoticed.
SendResult_IgnoreClosed(closed) == Ok

\* execute, lines 362-364 and 379: what execute returns after the send
SendResult(closed) == IF closed THEN Err("MpscSend") ELSE Ok

\* execute, lines 362-364 and 379: the send on the outbound payload channel,
\* which fails when the receiver is gone.
SendPayload ==
    /\ Len(stack) > 0
    /\ Top.pc = "send"
    /\ \E closed \in BOOLEAN :
         IF closed
         THEN /\ log' = Append(log, Event("send", "none", FALSE, "Closed", "", FALSE))
              /\ stack' = SetTop(Return(Top, SendResult(closed)))
              /\ UNCHANGED payload_rx
         ELSE /\ log' = Append(log, Event("send", "none", FALSE, "Sent", "", TRUE))
              /\ payload_rx' = Append(payload_rx, Top.envelope)
              /\ stack' = SetTop(Return(Top, SendResult(closed)))
    /\ UNCHANGED <<state, task, avars>>


\* ========================================================================
\* The Derivation Actor (derivation.rs)
\* ========================================================================
Signals == {"Reset", "Activation", "FlushChannel"}

\* The L2 safe head before the engine has initialized it: the zero hash.
ZeroSafeHead == [number |-> 0, timestamp |-> 0, zero_hash |-> TRUE]

\* The safe heads the engine publishes: the blocks of a chain on which interop
\* activates at block 2.
SafeHeads ==
    {[number |-> n, timestamp |-> cfg.interop_time - 2 + n, zero_hash |-> FALSE] :
        n \in 1..MaxNum}

NoAttributes == [id |-> 0]
NoWake == [ready |-> {}, chosen |-> "none", processed |-> FALSE]
NoReorg == [open |-> FALSE, open_reset |-> FALSE, units |-> 0, skipped |-> "none"]

\* What an iteration of the stepping loop sent to the pipeline, when nothing.
NoSignal == [kind |-> "none", l2_safe_head |-> ZeroSafeHead, l1_origin |-> 0, system_config |-> 0]
NoDelivery == [signal |-> "none", ok |-> TRUE, count |-> 0]
NoStep == [result |-> "none", ok |-> TRUE, origin |-> 0, signal |-> NoSignal, tick |-> 0]

\* pipeline.system_config_by_number(n): the system config of L2 block n.
system_config_by_number(n) == n + 100

\* Which histories are kept: a history that is not observed stays as it was.
Observed(h, new, old) == IF h \in observe THEN new ELSE old

\* DerivationState::new, DerivationActor::new and the context start() is given.
ActorConstructed ==
    /\ pc = "select"
    /\ exit = "none"
    /\ derivation_idle = TRUE
    /\ waiting_for_signal = FALSE
    /\ pipeline = [produced |-> 0, last_signal |-> "none"]
    /\ payload_attrs = NoAttributes
    /\ l2_safe_head = ZeroSafeHead
    /\ cancellation = FALSE
    /\ derivation_signal_rx = [queue |-> <<>>, closed |-> FALSE]
    /\ l1_head_updates = [changed |-> FALSE, closed |-> FALSE]
    /\ engine_l2_safe_head = [value |-> ZeroSafeHead, changed |-> FALSE, closed |-> FALSE]
    /\ el_sync_complete_rx = "pending"
    /\ attributes_out = <<>>
    /\ reset_request_tx = 0
    /\ signals_sent = 0
    /\ wake = NoWake
    /\ reorg = NoReorg
    /\ step = NoStep
    /\ stepped_on = FALSE
    /\ delivery = NoDelivery

\* ------------------------------------------------------------ the select!
\* The branches of select!, in the order they are written (lines 356-395).
BranchOrder == <<"cancellation", "signal", "l1_head", "l2_safe_head", "el_sync_complete">>

\* Whether the future of a branch is ready: the token has fired; recv() has a
\* message or the channel is closed; changed() has an unseen value or the sender
\* is gone; the one-shot has completed and was not polled to completion before.
Ready(b) ==
    CASE b = "cancellation" -> cancellation
      [] b = "signal" -> derivation_signal_rx.queue # <<>> \/ derivation_signal_rx.closed
      [] b = "l1_head" -> l1_head_updates.changed \/ l1_head_updates.closed
      [] b = "l2_safe_head" -> engine_l2_safe_head.changed \/ engine_l2_safe_head.closed
      [] b = "el_sync_complete" -> el_sync_complete_rx = "complete"

ReadyBranches == {BranchOrder[i] : i \in {j \in 1..Len(BranchOrder) : Ready(BranchOrder[j])}}

\* Mutant: the L1 head branch is written above the signal branch.
SelectBranch_DataFirst(ready) ==
    LET order == <<"cancellation", "l1_head", "signal", "l2_safe_head", "el_sync_complete">>
        first == CHOOSE i \in 1..Len(order) :
                    /\ order[i] \in ready
                    /\ \A j \in 1..(i - 1) : order[j] \notin ready
    IN order[first]

\* Mutant: the signal branch is written last.
SelectBranch_SignalLast(ready) ==
    LET order == <<"cancellation", "l1_head", "l2_safe_head", "el_sync_complete", "signal">>
        first == CHOOSE i \in 1..Len(order) :
                    /\ order[i] \in ready
                    /\ \A j \in 1..(i - 1) : order[j] \notin ready
    IN order[first]

\* select! { biased; ... } (lines 353-354): the first ready branch, in the order
\* written.
SelectBranch(ready) ==
    LET first == CHOOSE i \in 1..Len(BranchOrder) :
                    /\ BranchOrder[i] \in ready
                    /\ \A j \in 1..(i - 1) : BranchOrder[j] \notin ready
    IN BranchOrder[first]

Selected(b) ==
    /\ pc = "select"
    /\ ReadyBranches # {}
    /\ SelectBranch(ReadyBranches) = b

Woken(b, processed) ==
    Observed("wake", [ready |-> ReadyBranches, chosen |-> b, processed |-> processed], wake)

\* Mutant: process() does not look at waiting_for_signal.
ProcessGuards_NoWaiting(msg, terminated, idle, waiting, watch) ==
    IF ~terminated THEN "skip"
    ELSE IF ~(idle \/ msg = "SafeHeadUpdated") /\ watch.closed THEN "fail"
    ELSE IF ~(idle \/ msg = "SafeHeadUpdated") /\ ~watch.changed THEN "skip"
    ELSE IF watch.value.zero_hash THEN "skip"
    ELSE "step"

\* Mutant: process() does not wait for EL sync to complete.
ProcessGuards_NoElSync(msg, terminated, idle, waiting, watch) ==
    IF waiting THEN "skip"
    ELSE IF ~(idle \/ msg = "SafeHeadUpdated") /\ watch.closed THEN "fail"
    ELSE IF ~(idle \/ msg = "SafeHeadUpdated") /\ ~watch.changed THEN "skip"
    ELSE IF watch.value.zero_hash THEN "skip"
    ELSE "step"

\* process(), lines 244-275: the guards before the pipeline is stepped
ProcessGuards(msg, terminated, idle, waiting, watch) ==
    IF ~terminated THEN "skip"
    ELSE IF waiting THEN "skip"
    ELSE IF ~(idle \/ msg = "SafeHeadUpdated") /\ watch.closed THEN "fail"
    ELSE IF ~(idle \/ msg = "SafeHeadUpdated") /\ ~watch.changed THEN "skip"
    ELSE IF watch.value.zero_hash THEN "skip"
    ELSE "step"

\* process() up to the first step of produce_next_attributes (lines 244-280).
\* The one-shot and the safe head watch are taken as the branch left them.
Process(msg, terminated, watch) ==
    LET g == ProcessGuards(msg, terminated, derivation_idle, waiting_for_signal, watch) IN
    /\ pc' = CASE g = "step" -> "step" [] g = "fail" -> "done" [] OTHER -> "select"
    /\ exit' = IF g = "fail" THEN "L2SafeHeadReceiveFailed" ELSE exit
    /\ reorg' = IF reorg.open_reset /\ g = "skip" THEN [reorg EXCEPT !.skipped = msg] ELSE reorg

\* lines 356-362
OnCancellation ==
    /\ Selected("cancellation")
    /\ pc' = "done"
    /\ exit' = "Ok"
    /\ wake' = Woken("cancellation", FALSE)
    /\ UNCHANGED <<derivation_idle, waiting_for_signal, pipeline, payload_attrs, cancellation,
                   derivation_signal_rx, l1_head_updates, engine_l2_safe_head,
                   el_sync_complete_rx, attributes_out, reset_request_tx, signals_sent,
                   reorg, step, stepped_on, observe, delivery,
                   l2_safe_head, bvars>>

\* Mutant: an error of the pipeline on a signal is returned from start().
SignalError_Propagated(delivered) == IF delivered THEN "none" ELSE "Pipeline"

\* DerivationState::signal, lines 115-120: what becomes of the pipeline's
\* answer to a signal: it is logged, and nothing is returned.
SignalError(delivered) == "none"

\* lines 363-375, with DerivationState::signal (lines 110-121). delivered:
\* pipeline.signal() returned Ok.
OnSignal ==
    /\ Selected("signal")
    /\ wake' = Woken("signal", FALSE)
    /\ IF derivation_signal_rx.queue = <<>>
       THEN /\ pc' = "done"
            /\ exit' = "SignalReceiveFailed"
            /\ UNCHANGED <<derivation_signal_rx, pipeline, waiting_for_signal, reorg, delivery>>
       ELSE \E delivered \in BOOLEAN :
            /\ derivation_signal_rx' =
                  [derivation_signal_rx EXCEPT !.queue = Tail(derivation_signal_rx.queue)]
            /\ pipeline' = [pipeline EXCEPT !.last_signal = Head(derivation_signal_rx.queue)]
            /\ delivery' = Observed("signal",
                                    [signal |-> Head(derivation_signal_rx.queue),
                                     ok |-> delivered, count |-> delivery.count + 1],
                                    delivery)
            /\ IF SignalError(delivered) = "none"
               THEN /\ waiting_for_signal' = FALSE
                    /\ UNCHANGED <<pc, exit>>
               ELSE /\ pc' = "done"
                    /\ exit' = SignalError(delivered)
                    /\ UNCHANGED waiting_for_signal
            /\ reorg' = [reorg EXCEPT
                            !.open = FALSE,
                            !.open_reset = IF Head(derivation_signal_rx.queue) = "Reset"
                                           THEN FALSE ELSE reorg.open_reset]
    /\ UNCHANGED <<derivation_idle, payload_attrs, cancellation, l1_head_updates,
                   engine_l2_safe_head, el_sync_complete_rx, attributes_out,
                   reset_request_tx, signals_sent, step, stepped_on, observe,
                   l2_safe_head, bvars>>

\* lines 376-387
OnL1Head ==
    /\ Selected("l1_head")
    /\ IF l1_head_updates.changed
       THEN /\ l1_head_updates' = [l1_head_updates EXCEPT !.changed = FALSE]
            /\ wake' = Woken("l1_head", TRUE)
            /\ Process("NewDataAvailable", el_sync_complete_rx = "terminated",
                       engine_l2_safe_head)
       ELSE /\ pc' = "done"
            /\ exit' = "Ok"
            /\ wake' = Woken("l1_head", FALSE)
            /\ UNCHANGED <<l1_head_updates, reorg>>
    /\ UNCHANGED <<derivation_idle, waiting_for_signal, pipeline, payload_attrs, cancellation,
                   derivation_signal_rx, engine_l2_safe_head, el_sync_complete_rx,
                   attributes_out, reset_request_tx, signals_sent, step, stepped_on, observe, delivery,
                   l2_safe_head, bvars>>

\* lines 388-390
OnSafeHead ==
    /\ Selected("l2_safe_head")
    /\ engine_l2_safe_head' = [engine_l2_safe_head EXCEPT !.changed = FALSE]
    /\ wake' = Woken("l2_safe_head", TRUE)
    /\ Process("SafeHeadUpdated", el_sync_complete_rx = "terminated", engine_l2_safe_head')
    /\ UNCHANGED <<derivation_idle, waiting_for_signal, pipeline, payload_attrs, cancellation,
                   derivation_signal_rx, l1_head_updates, el_sync_complete_rx,
                   attributes_out, reset_request_tx, signals_sent, step, stepped_on, observe, delivery,
                   l2_safe_head, bvars>>

\* lines 391-395
OnElSyncComplete ==
    /\ Selected("el_sync_complete")
    /\ el_sync_complete_rx' = "terminated"
    /\ wake' = Woken("el_sync_complete", TRUE)
    /\ Process("NewDataAvailable", TRUE, engine_l2_safe_head)
    /\ UNCHANGED <<derivation_idle, waiting_for_signal, pipeline, payload_attrs, cancellation,
                   derivation_signal_rx, l1_head_updates, engine_l2_safe_head,
                   attributes_out, reset_request_tx, signals_sent, step, stepped_on, observe, delivery,
                   l2_safe_head, bvars>>

\* ------------------------------------------------ produce_next_attributes
\* What pipeline.step() may return, with the error kinds it may carry.
StepResults ==
    {"PreparedAttributes", "AdvancedOrigin", "Temporary(NotEnoughData)", "Temporary(Eof)",
     "Reset(ReorgDetected)", "Reset(BadParentHash)", "Reset(HoloceneActivation)",
     "Critical"}

\* Mutant: the system config is fetched for the genesis block, not for the
\* safe head.
ActivationSignal_GenesisConfig(safe_head, l1_origin) ==
    [kind |-> "Activation", l2_safe_head |-> safe_head, l1_origin |-> l1_origin,
     system_config |-> system_config_by_number(0)]

\* produce_next_attributes, lines 162-180: the signal built for the pipeline on
\* Reset(HoloceneActivation).
ActivationSignal(safe_head, l1_origin) ==
    [kind |-> "Activation", l2_safe_head |-> safe_head, l1_origin |-> l1_origin,
     system_config |-> system_config_by_number(safe_head.number)]

\* Mutant: HoloceneActivation is handled as every other reset.
ResetAction_NoActivation(r, safe_head) ==
    IF ~is_interop_active(safe_head.timestamp) THEN "request_reset"
    ELSE "latch"

\* produce_next_attributes, lines 167-205: what a Reset error leads to.
ResetAction(r, safe_head) ==
    IF r = "Reset(HoloceneActivation)" THEN "activate"
    ELSE IF ~is_interop_active(safe_head.timestamp) THEN "request_reset"
    ELSE "latch"

\* Mutant: process() reads the watch with borrow(), which marks nothing.
borrow_and_update_AsBorrow(watch) == watch

\* process(), line 296: the current value of the watch is marked as seen.
borrow_and_update(watch) == [watch EXCEPT !.changed = FALSE]

\* Mutant: a Critical error is taken for an exhausted data source.
LoopError_CriticalYields(r) ==
    IF r \in {"Temporary(Eof)", "Critical"} THEN "Yield" ELSE "Pipeline"

\* Mutant: an exhausted data source is an error like any other.
LoopError_EofFatal(r) == "Pipeline"

\* produce_next_attributes, lines 146-158 and 208-212: the error the loop
\* returns for a Temporary error other than NotEnoughData and for a Critical
\* one; process() (lines 281-289) turns Yield into Ok and returns the other.
LoopError(r) ==
    IF r = "Temporary(Eof)" THEN "Yield" ELSE "Pipeline"

TemporaryErrors == {"Temporary(NotEnoughData)", "Temporary(Eof)"}

ResetErrors == {"Reset(ReorgDetected)", "Reset(BadParentHash)", "Reset(HoloceneActivation)"}

\* The top of the loop of produce_next_attributes (lines 133-135): the safe
\* head is read off the watch and the pipeline is stepped with it.
PipelineStepCall ==
    /\ pc = "step"
    /\ l2_safe_head' = engine_l2_safe_head.value
    /\ stepped_on' = Observed("step", TRUE, stepped_on)
    /\ pc' = "stepping"
    /\ UNCHANGED <<exit, derivation_idle, waiting_for_signal, pipeline, payload_attrs,
                   cancellation, derivation_signal_rx, l1_head_updates, engine_l2_safe_head,
                   el_sync_complete_rx, attributes_out, reset_request_tx, signals_sent,
                   wake, reorg, step, observe, delivery, bvars>>

\* The step returns: the rest of the iteration (lines 135-221), and what
\* process() does with the result of the loop (lines 279-296). calls_ok: the calls the
\* iteration makes on the pipeline besides step() (origin,
\* system_config_by_number, signal) succeed; origin: what pipeline.origin()
\* returns, drawn where the iteration passes it on.
PipelineStep ==
    /\ pc = "stepping"
    /\ l2_safe_head' = ZeroSafeHead
    /\ \E r \in StepResults, calls_ok \in BOOLEAN :
          /\ \E origin \in 0..MaxOrigin :
                /\ (origin # 0) =>
                      r \in ResetErrors /\ calls_ok /\ ResetAction(r, l2_safe_head) = "activate"
                /\ step' = Observed("step",
                              [result |-> r, ok |-> calls_ok, origin |-> origin,
                               signal |-> IF r \in ResetErrors /\ calls_ok
                                             /\ ResetAction(r, l2_safe_head) = "activate"
                                          THEN ActivationSignal(l2_safe_head, origin)
                                          ELSE NoSignal,
                               tick |-> 1 - step.tick], step)
          /\ \/ /\ r = "PreparedAttributes"
                /\ calls_ok
                /\ pipeline.produced < MaxAttrs
                /\ pipeline' = [pipeline EXCEPT !.produced = pipeline.produced + 1]
                /\ payload_attrs' = [id |-> pipeline.produced + 1]
                /\ derivation_idle' = FALSE
                /\ engine_l2_safe_head' = borrow_and_update(engine_l2_safe_head)
                /\ pc' = "send_attrs"
                /\ UNCHANGED <<exit, waiting_for_signal, reorg>>
             \/ /\ r = "AdvancedOrigin"
                /\ pc' = IF calls_ok THEN "step" ELSE "done"
                /\ exit' = IF calls_ok THEN exit ELSE "Pipeline"
                /\ UNCHANGED <<pipeline, payload_attrs, derivation_idle, engine_l2_safe_head,
                               waiting_for_signal, reorg>>
             \/ /\ r = "Temporary(NotEnoughData)"
                /\ calls_ok
                /\ pc' = "step"
                /\ UNCHANGED <<exit, pipeline, payload_attrs, derivation_idle,
                               engine_l2_safe_head, waiting_for_signal, reorg>>
             \/ /\ r \in {"Temporary(Eof)", "Critical"}
                /\ calls_ok
                /\ IF LoopError(r) = "Yield"
                   THEN /\ derivation_idle' = TRUE
                        /\ pc' = "select"
                        /\ UNCHANGED exit
                   ELSE /\ pc' = "done"
                        /\ exit' = LoopError(r)
                        /\ UNCHANGED derivation_idle
                /\ UNCHANGED <<pipeline, payload_attrs, engine_l2_safe_head,
                               waiting_for_signal, reorg>>
             \/ /\ r \in ResetErrors
                /\ ~calls_ok
                /\ pc' = "done"
                /\ exit' = "Pipeline"
                /\ UNCHANGED <<pipeline, payload_attrs, engine_l2_safe_head,
                               waiting_for_signal, derivation_idle, reorg>>
             \/ /\ r \in ResetErrors
                /\ calls_ok
                /\ LET action == ResetAction(r, l2_safe_head) IN
                   CASE action = "activate" ->
                          /\ pipeline' = [pipeline EXCEPT !.last_signal = "Activation"]
                          /\ pc' = "step"
                          /\ UNCHANGED <<exit, waiting_for_signal, derivation_idle, reorg>>
                     [] action = "request_reset" ->
                          /\ pc' = "send_reset"
                          /\ reorg' = Observed("reorg",
                                        [open |-> TRUE, open_reset |-> TRUE, units |-> 0,
                                         skipped |-> "none"], reorg)
                          /\ UNCHANGED <<exit, waiting_for_signal, derivation_idle, pipeline>>
                     [] action = "latch" ->
                          /\ waiting_for_signal' = TRUE
                          /\ derivation_idle' = TRUE
                          /\ pc' = "select"
                          /\ UNCHANGED <<exit, reorg, pipeline>>
                /\ UNCHANGED <<payload_attrs, engine_l2_safe_head>>
    /\ UNCHANGED <<cancellation, derivation_signal_rx, l1_head_updates, el_sync_complete_rx,
                   attributes_out, reset_request_tx, signals_sent, wake, stepped_on, observe, delivery, bvars>>

\* produce_next_attributes, lines 199-205, and process(), lines 282-286: the
\* reset request goes out (or its receiver is gone), then the latch and Yield.
SendResetRequest ==
    /\ pc = "send_reset"
    /\ \E receiver_gone \in BOOLEAN :
         IF receiver_gone
         THEN /\ pc' = "done"
              /\ exit' = "Sender"
              /\ UNCHANGED <<reset_request_tx, waiting_for_signal, derivation_idle, reorg>>
         ELSE /\ reset_request_tx < ChannelCap
              /\ reset_request_tx' = reset_request_tx + 1
              /\ waiting_for_signal' = TRUE
              /\ derivation_idle' = TRUE
              /\ reorg' = Observed("reorg", [reorg EXCEPT !.units = reorg.units + 1], reorg)
              /\ pc' = "select"
              /\ UNCHANGED exit
    /\ UNCHANGED <<pipeline, payload_attrs, cancellation, derivation_signal_rx,
                   l1_head_updates, engine_l2_safe_head, el_sync_complete_rx,
                   attributes_out, signals_sent, wake, step, stepped_on, observe, delivery,
                   l2_safe_head, bvars>>

\* Mutant: the attributes are dropped instead of queued.
send_Dropped(queue, message) == queue

\* Sender::send on a channel with room (line 298-300): the message is queued.
send(queue, message) == Append(queue, message)

\* process(), lines 298-304: the attributes go out, or their receiver is gone.
SendAttributes ==
    /\ pc = "send_attrs"
    /\ \E receiver_gone \in BOOLEAN :
         IF receiver_gone
         THEN /\ pc' = "done"
              /\ exit' = "Sender"
              /\ UNCHANGED attributes_out
         ELSE /\ Len(attributes_out) < ChannelCap
              /\ attributes_out' = send(attributes_out, payload_attrs)
              /\ pc' = "select"
              /\ UNCHANGED exit
    /\ UNCHANGED <<derivation_idle, waiting_for_signal, pipeline, payload_attrs, cancellation,
                   derivation_signal_rx, l1_head_updates, engine_l2_safe_head,
                   el_sync_complete_rx, reset_request_tx, signals_sent, wake, reorg, step, stepped_on, observe, delivery,
                   l2_safe_head, bvars>>

\* -------------------------------------------------- the actor's environment
Running == pc # "done"

\* The supervisor cancels the shared token.
Cancel ==
    /\ Running /\ ~cancellation
    /\ cancellation' = TRUE
    /\ UNCHANGED <<pc, exit, derivation_idle, waiting_for_signal, pipeline, payload_attrs,
                   derivation_signal_rx, l1_head_updates, engine_l2_safe_head,
                   el_sync_complete_rx, attributes_out, reset_request_tx, signals_sent,
                   wake, reorg, step, stepped_on, observe, delivery,
                   l2_safe_head, bvars>>

\* The engine sends a signal, or drops the sending side.
EngineSignals ==
    /\ Running /\ ~derivation_signal_rx.closed
    /\ \/ \E sig \in Signals :
            /\ signals_sent < MaxSignals
            /\ signals_sent' = signals_sent + 1
            /\ derivation_signal_rx' =
                  [derivation_signal_rx EXCEPT !.queue = Append(derivation_signal_rx.queue, sig)]
       \/ /\ derivation_signal_rx' = [derivation_signal_rx EXCEPT !.closed = TRUE]
          /\ UNCHANGED signals_sent
    /\ UNCHANGED <<pc, exit, derivation_idle, waiting_for_signal, pipeline, payload_attrs,
                   cancellation, l1_head_updates, engine_l2_safe_head, el_sync_complete_rx,
                   attributes_out, reset_request_tx, wake, reorg, step, stepped_on, observe, delivery,
                   l2_safe_head, bvars>>

\* The L1 watcher publishes a new head, or goes away.
L1Watcher ==
    /\ Running /\ ~l1_head_updates.closed
    /\ \/ l1_head_updates' = [l1_head_updates EXCEPT !.changed = TRUE]
       \/ l1_head_updates' = [l1_head_updates EXCEPT !.closed = TRUE]
    /\ UNCHANGED <<pc, exit, derivation_idle, waiting_for_signal, pipeline, payload_attrs,
                   cancellation, derivation_signal_rx, engine_l2_safe_head,
                   el_sync_complete_rx, attributes_out, reset_request_tx, signals_sent,
                   wake, reorg, step, stepped_on, observe, delivery,
                   l2_safe_head, bvars>>

\* The engine publishes a safe head, or goes away.
EngineSafeHead ==
    /\ Running /\ ~engine_l2_safe_head.closed
    /\ \/ \E h \in SafeHeads :
            /\ h.number > engine_l2_safe_head.value.number
            /\ engine_l2_safe_head' =
                  [engine_l2_safe_head EXCEPT !.value = h, !.changed = TRUE]
            /\ stepped_on' = Observed("step", FALSE, stepped_on)
       \/ /\ engine_l2_safe_head' = [engine_l2_safe_head EXCEPT !.closed = TRUE]
          /\ UNCHANGED stepped_on
    /\ UNCHANGED <<pc, exit, derivation_idle, waiting_for_signal, pipeline, payload_attrs,
                   cancellation, derivation_signal_rx, l1_head_updates,
                   el_sync_complete_rx, attributes_out, reset_request_tx, signals_sent,
                   wake, reorg, step, observe, delivery,
                   l2_safe_head, bvars>>

\* The engine reports that EL sync is complete (or drops the one-shot's sender,
\* which completes the receiver as well).
ElSyncCompletes ==
    /\ Running /\ el_sync_complete_rx = "pending"
    /\ el_sync_complete_rx' = "complete"
    /\ UNCHANGED <<pc, exit, derivation_idle, waiting_for_signal, pipeline, payload_attrs,
                   cancellation, derivation_signal_rx, l1_head_updates, engine_l2_safe_head,
                   attributes_out, reset_request_tx, signals_sent, wake, reorg, step, stepped_on, observe, delivery,
                   l2_safe_head, bvars>>

ActorWithBuildTaskIdle ==
    /\ ActorConstructed
    /\ state = [unsafe_head |-> ChainBlock(0), cross_unsafe_head |-> ChainBlock(0),
                local_safe_head |-> ChainBlock(0), safe_head |-> ChainBlock(0),
                finalized_head |-> ChainBlock(0)]
    /\ task = [attributes |-> [parent |-> ChainBlock(0), txs |-> <<>>, timestamp |-> 0],
               is_attributes_derived |-> TRUE, payload_tx |-> "None"]
    /\ stack = <<>>
    /\ log = <<>>
    /\ payload_rx = <<>>

NextActor ==
    \/ OnCancellation
    \/ OnSignal
    \/ OnL1Head
    \/ OnSafeHead
    \/ OnElSyncComplete
    \/ PipelineStepCall
    \/ PipelineStep
    \/ SendResetRequest
    \/ SendAttributes
    \/ Cancel
    \/ EngineSignals
    \/ L1Watcher
    \/ EngineSafeHead
    \/ ElSyncCompletes

\* The actor with the histories of its wakes and of its reset requests.
InitActor == ActorWithBuildTaskIdle /\ observe = {"wake", "reorg"}

SpecActor == InitActor /\ [][NextActor]_vars

\* The actor with the history of its stepping loop.
InitSteps == ActorWithBuildTaskIdle /\ observe = {"step"}

SpecSteps == InitSteps /\ [][NextActor]_vars

\* The actor with the history of the signals it hands to the pipeline.
InitSignals == ActorWithBuildTaskIdle /\ observe = {"signal"}

SpecSignals == InitSignals /\ [][NextActor]_vars

\* The steps of the actor's own task, as opposed to those of its environment.
ActorStep ==
    \/ OnCancellation
    \/ OnSignal
    \/ OnL1Head
    \/ OnSafeHead
    \/ OnElSyncComplete
    \/ PipelineStepCall
    \/ PipelineStep
    \/ SendResetRequest
    \/ SendAttributes

\* The stepping loop under a fair runtime: a task that can make progress is
\* polled, every call on the pipeline returns, and a send completes (its
\* receiver takes from the queue or is dropped).
SpecStepsFair == InitSteps /\ [][NextActor]_vars /\ WF_vars(ActorStep)

\* ------------------------------------------------------ the specification
InitBuild ==
    /\ state \in EngineStates
    /\ task \in Tasks
    /\ stack = <<NewFrame(task.attributes, state)>>
    /\ log = <<>>
    /\ payload_rx = <<>>
    /\ ActorConstructed
    /\ observe = {}

NextBuild ==
    \/ StartBuild
    \/ GetPayload
    \/ NewPayload
    \/ ReattemptReturn
    \/ Canonicalize
    \/ SendPayload

SpecBuild == InitBuild /\ [][NextBuild]_vars

\* execute with an engine that answers every call and a runtime that polls
\* the task.
SpecBuildFair == InitBuild /\ [][NextBuild]_vars /\ WF_vars(NextBuild)

\* The result of the top-level execute, once it has returned.
result == IF stack[1].pc = "done" /\ Len(stack) = 1 THEN stack[1].ret ELSE NoResult

\* ========================================================================
\* Properties of the Build Task (checked under SpecBuild)
\* ========================================================================
StepOrder == <<"fcu_attrs", "get_payload", "new_payload", "set_heads", "fcu_canon", "send">>

\* The interactions of one frame of execute, in order.
FrameEvents(k) == SelectSeq(log, LAMBDA e : e.frame = k)

FramesLogged == {log[i].frame : i \in 1..Len(log)}

\* The block a run with the given attributes asks the engine to build.
BlockOf(attrs) == [number |-> attrs.parent.number + 1, txs |-> attrs.txs]

\* C1: in every run of execute, nested re-attempts included, the interactions
\* happen in the order forkchoice update with attributes, getPayload,
\* newPayload, head updates, canonicalizing forkchoice update, outbound send;
\* a step is only ever followed by another one of the same run when it
\* succeeded, and a nested run starts only after its caller's last step.
C1_StrictOrder ==
    /\ \A k \in FramesLogged :
         LET evs == FrameEvents(k) IN
         /\ Len(evs) <= Len(StepOrder)
         /\ \A i \in 1..Len(evs) :
              /\ evs[i].op = StepOrder[i]
              /\ (i < Len(evs)) => evs[i].ok
    /\ \A i, j \in 1..Len(log) : (i < j) => log[i].frame <= log[j].frame

\* C1 witness: a re-attempt ran all six steps after its caller's three.
C1_Witness ==
    /\ result = Err("HoloceneInvalidFlush")
    /\ Len(FrameEvents(1)) = 3
    /\ Len(FrameEvents(2)) = 6

\* C2 (as claimed, and only for runs that started from an ordered tower): after a
\* successful commit, i.e. execute returned Ok, the heads are ordered by block
\* number, unsafe >= cross-unsafe >= local-safe >= safe >= finalized.
C2_TowerAfterCommit ==
    (result = Ok /\ TowerOrdered(stack[1].entry)) => TowerOrdered(state)

\* C3: a forkchoice update with attributes answered SYNCING is the last
\* interaction of the task: its execute returns EngineSyncing, no getPayload or
\* newPayload follows, no head has changed and nothing was sent outbound.
C3_EngineSyncing ==
    \A i \in 1..Len(log) :
        (log[i].op = "fcu_attrs" /\ log[i].status = "Syncing") =>
            /\ i = Len(log)
            /\ log[i].frame <= Len(stack) =>
                  /\ stack[log[i].frame].pc = "done"
                  /\ stack[log[i].frame].ret = Err("EngineSyncing")
            /\ \A j \in 1..Len(log) : log[j].op \in {"get_payload", "new_payload"} =>
                  log[j].frame < log[i].frame
            /\ state = stack[1].entry
            /\ payload_rx = <<>>

\* C3 witness: the top-level execute has returned after a SYNCING answer.
C3_Witness ==
    /\ Len(log) = 1
    /\ log[1].status = "Syncing"
    /\ result = Err("EngineSyncing")

\* The attributes for which an INVALID newPayload leads to a re-attempt.
Reattemptable(attrs) == ~is_deposits_only(attrs) /\ is_holocene_active(attrs.timestamp)

\* The frame's last interaction is a newPayload answered INVALID.
RejectedInvalid(k) ==
    /\ FrameEvents(k) # <<>>
    /\ FrameEvents(k)[Len(FrameEvents(k))].op = "new_payload"
    /\ FrameEvents(k)[Len(FrameEvents(k))].status = "Invalid"

\* C4: when newPayload answers INVALID for attributes that are not
\* deposits-only and are Holocene-active, execute runs itself again on the same
\* EngineState with the deposits-only attributes; when that run succeeds the
\* outer execute returns HoloceneInvalidFlush, never Ok, and the heads are the
\* deposits-only block, not the rejected one.
C4_HoloceneReattempt ==
    /\ \A k \in 1..Len(stack) :
          (RejectedInvalid(k) /\ Reattemptable(stack[k].attributes)) =>
              \/ /\ stack[k].pc = "reattempt"
                 /\ Len(stack) > k
                 /\ stack[k + 1].attributes.txs = DepositsOf(stack[k].attributes.txs)
                 /\ stack[k + 1].attributes.parent = stack[k].attributes.parent
                 /\ stack[k + 1].attributes.timestamp = stack[k].attributes.timestamp
                 /\ stack[k + 1].entry = stack[k].entry
              \/ /\ stack[k].pc = "done"
                 /\ stack[k].reattempt # NoResult
                 /\ stack[k].ret # Ok
                 /\ (stack[k].reattempt = Ok) <=> (stack[k].ret = Err("HoloceneInvalidFlush"))
                 /\ (stack[k].reattempt = Ok) =>
                       /\ state.unsafe_head = BlockOf(as_deposits_only(stack[k].attributes))
                       /\ state.cross_unsafe_head = state.unsafe_head
                       /\ state.unsafe_head # BlockOf(stack[k].attributes)
                       /\ task.is_attributes_derived =>
                             /\ state.local_safe_head = state.unsafe_head
                             /\ state.safe_head = state.unsafe_head
    /\ (result = Err("HoloceneInvalidFlush")) =>
          (RejectedInvalid(1) /\ Reattemptable(task.attributes))

\* C4 witness: the re-attempt succeeded and the outer execute has returned.
C4_Witness ==
    /\ result = Err("HoloceneInvalidFlush")
    /\ stack[1].reattempt = Ok
    /\ state.unsafe_head = BlockOf(as_deposits_only(task.attributes))

\* C5: when newPayload answers INVALID with a validation error for attributes
\* that are neither deposits-only nor Holocene-active, execute fails with
\* NewPayloadFailed carrying that error; there is no re-attempt (no second
\* forkchoice update with attributes), no head has changed and nothing was sent.
C5_PreHoloceneInvalid ==
    \A i \in 1..Len(log) :
        ( /\ log[i].op = "new_payload"
          /\ log[i].status = "Invalid"
          /\ log[i].frame = 1
          /\ ~is_deposits_only(task.attributes)
          /\ ~is_holocene_active(task.attributes.timestamp) ) =>
            /\ i = Len(log)
            /\ Len(stack) = 1
            /\ result = ErrMsg("NewPayloadFailed", log[i].msg)
            /\ Cardinality({j \in 1..Len(log) : log[j].op = "fcu_attrs"}) = 1
            /\ state = stack[1].entry
            /\ payload_rx = <<>>

\* C5 witness: a pre-Holocene payload with a user transaction was rejected.
C5_Witness ==
    /\ result = ErrMsg("NewPayloadFailed", "bad tx")
    /\ ~is_holocene_active(task.attributes.timestamp)
    /\ ~is_deposits_only(task.attributes)

\* C6: a run entered with the unsafe head behind the finalized head fails with
\* FinalizedAheadOfUnsafe without any Engine API call and without touching
\* EngineState; every Engine API call is made by a run that was entered with
\* unsafe_head.number >= finalized_head.number.
C6_EntryCheck ==
    /\ \A k \in 1..Len(stack) :
          (stack[k].entry.unsafe_head.number < stack[k].entry.finalized_head.number) =>
              /\ stack[k].pc \in {"execute", "done"}
              /\ (stack[k].pc = "done") => stack[k].ret = Err("FinalizedAheadOfUnsafe")
              /\ FrameEvents(k) = <<>>
              /\ state = stack[k].entry
    /\ \A i \in 1..Len(log) : ~log[i].entry_ahead

\* C6 witness: execute has returned FinalizedAheadOfUnsafe.
C6_Witness ==
    /\ result = Err("FinalizedAheadOfUnsafe")
    /\ state.unsafe_head.number < state.finalized_head.number
    /\ log = <<>>

VersionNumber(v) ==
    CASE v = "V1" -> 1 [] v = "V2" -> 2 [] v = "V3" -> 3 [] v = "V4" -> 4 [] OTHER -> 0

\* C7: the Engine API versions of a run are the timestamp-gated ones:
\* forkchoiceUpdated V3 from Ecotone on, else V2 from Canyon on, else V1;
\* getPayload V4 from Isthmus on, else V3 from Ecotone on, else V2; newPayload
\* in the version of the payload that getPayload returned, with the parent
\* beacon block root exactly on V3 and V4.
C7_VersionDispatch ==
    LET t == task.attributes.timestamp IN
    \A i \in 1..Len(log) :
        /\ (log[i].op = "fcu_attrs") =>
              /\ (t >= cfg.ecotone_time) => log[i].ver = "V3"
              /\ (t < cfg.ecotone_time /\ t >= cfg.canyon_time) => log[i].ver = "V2"
              /\ (t < cfg.ecotone_time /\ t < cfg.canyon_time) => log[i].ver = "V1"
        /\ (log[i].op = "get_payload") =>
              /\ (t >= cfg.isthmus_time) => log[i].ver = "V4"
              /\ (t < cfg.isthmus_time /\ t >= cfg.ecotone_time) => log[i].ver = "V3"
              /\ (t < cfg.isthmus_time /\ t < cfg.ecotone_time) => log[i].ver = "V2"
        /\ (log[i].op = "new_payload") =>
              /\ i > 1
              /\ log[i - 1].op = "get_payload"
              /\ log[i - 1].frame = log[i].frame
              /\ log[i].ver = log[i - 1].status
              /\ (log[i - 1].ver = "V4") => log[i].ver = "V4"
              /\ (log[i - 1].ver = "V3") => log[i].ver = "V3"
              /\ (log[i - 1].ver = "V2") => log[i].ver \in {"V1", "V2"}
              /\ log[i].pbbr <=> (log[i].ver \in {"V3", "V4"})
              /\ (t >= cfg.ecotone_time) => VersionNumber(log[i].ver) >= 3

\* C7 witness: a pre-Ecotone payload came back as a V1 payload and was
\* imported with newPayloadV1.
C7_Witness ==
    /\ Len(log) >= 3
    /\ log[2].op = "get_payload" /\ log[2].ver = "V2" /\ log[2].status = "V1"
    /\ log[3].op = "new_payload" /\ log[3].ver = "V1"

\* The frame has committed: its head updates are in the history.
Committed(k) == \E i \in 1..Len(FrameEvents(k)) : FrameEvents(k)[i].op = "set_heads"

\* C8: a commit sets the unsafe and cross-unsafe heads to the new block; it sets
\* the local-safe and safe heads to the new block when the attributes are
\* derived and leaves them alone when they are not; the finalized head never
\* changes; and without a commit no head changes.
C8_CommitFrame ==
    /\ state.finalized_head = stack[1].entry.finalized_head
    /\ \A k \in 1..Len(stack) :
          Committed(k) =>
              /\ state.unsafe_head = BlockOf(stack[k].attributes)
              /\ state.cross_unsafe_head = BlockOf(stack[k].attributes)
              /\ task.is_attributes_derived =>
                    /\ state.local_safe_head = BlockOf(stack[k].attributes)
                    /\ state.safe_head = BlockOf(stack[k].attributes)
    /\ (~task.is_attributes_derived) =>
          /\ state.local_safe_head = stack[1].entry.local_safe_head
          /\ state.safe_head = stack[1].entry.safe_head
    /\ (\A i \in 1..Len(log) : log[i].op # "set_heads") => state = stack[1].entry

\* C8 witness: a block built by the sequencer was committed while the safe
\* heads stood elsewhere.
C8_Witness ==
    /\ result = Ok
    /\ ~task.is_attributes_derived
    /\ state.unsafe_head = BlockOf(task.attributes)
    /\ state.cross_unsafe_head = BlockOf(task.attributes)
    /\ state.safe_head = ChainBlock(0)
    /\ state.local_safe_head = ChainBlock(0)

\* ------------------------------------------------------------------------
\* Properties of the Derivation Actor (checked under SpecActor)
\* ------------------------------------------------------------------------
\* The priority the branches are said to have: 1 is the highest.
Rank ==
    [b \in {"cancellation", "signal", "l1_head", "l2_safe_head", "el_sync_complete"} |->
        CASE b = "cancellation" -> 1
          [] b = "signal" -> 2
          [] b = "l1_head" -> 3
          [] b = "l2_safe_head" -> 4
          [] b = "el_sync_complete" -> 5]

\* C9: on every wake of the event loop exactly one branch runs, the
\* highest-priority ready one in the order cancellation > signal > L1 head >
\* L2 safe head > EL sync complete: the branch that ran was ready and no ready
\* branch outranks it, the other ready branches did not run (their events are
\* still there to be serviced; a safe head change is left out here, as the
\* stepping that process() does may take it), and process() is never called on
\* new data while a cancellation or a signal is ready.
C9_BiasedSelect ==
    wake.chosen # "none" =>
        /\ wake.chosen \in wake.ready
        /\ \A b \in wake.ready : Rank[wake.chosen] <= Rank[b]
        /\ \A b \in wake.ready \ {wake.chosen, "l2_safe_head"} : Ready(b)
        /\ wake.processed => wake.ready \cap {"cancellation", "signal"} = {}

\* A wake with three or more branches ready at once, a queued signal among
\* them and no cancellation: the signal is the one serviced.
C9_Witness ==
    /\ Cardinality(wake.ready) >= 3
    /\ "cancellation" \notin wake.ready
    /\ wake.chosen = "signal"
    /\ pipeline.last_signal # "none"

ProcessEntry(b) ==
    /\ Selected(b)
    /\ b \in {"l1_head", "l2_safe_head", "el_sync_complete"}
    /\ b = "l1_head" => l1_head_updates.changed

\* What process() finds at its entry that makes it skip: the one-shot has not
\* fired (only the EL sync branch itself completes it), waiting_for_signal, or
\* a zero-hash safe head.
SkipsAtEntry(b) ==
    \/ b # "el_sync_complete" /\ el_sync_complete_rx # "terminated"
    \/ waiting_for_signal
    \/ engine_l2_safe_head.value.zero_hash

\* C12: process() performs no pipeline step, sends nothing on attributes_out
\* or reset_request_tx, changes neither derivation_idle nor waiting_for_signal
\* and returns Ok, whenever at its entry the EL-sync one-shot has not fired, or
\* waiting_for_signal is true, or the safe head has the zero hash; hence the
\* pipeline is never stepped before EL sync completes nor while
\* waiting_for_signal holds.
C12_SkippedProcess ==
    /\ [](pc \in {"step", "stepping"} =>
            el_sync_complete_rx = "terminated" /\ ~waiting_for_signal)
    /\ [][\A b \in {"l1_head", "l2_safe_head", "el_sync_complete"} :
            (ProcessEntry(b) /\ SkipsAtEntry(b)) =>
                /\ pc' = "select"
                /\ exit' = exit
                /\ attributes_out' = attributes_out
                /\ reset_request_tx' = reset_request_tx
                /\ derivation_idle' = derivation_idle
                /\ waiting_for_signal' = waiting_for_signal
                /\ pipeline' = pipeline]_vars

\* EL sync has completed while the safe head still has the zero hash: the
\* process() call of that wake was skipped.
C12_Witness ==
    /\ wake.chosen = "el_sync_complete"
    /\ wake.processed
    /\ engine_l2_safe_head.value.zero_hash
    /\ pc = "select"
    /\ exit = "none"
    /\ derivation_idle

\* The transition marks the safe head as seen inside process() (the select's
\* changed() is not what marks it: the actor is past the select).
MarkedSeenInProcess ==
    /\ pc # "select"
    /\ engine_l2_safe_head.changed
    /\ ~engine_l2_safe_head'.changed

\* C13 as stated: process() marks the safe head as seen only once the
\* produced attributes have been sent on attributes_out.
C13_SeenAfterSend ==
    [][MarkedSeenInProcess => Len(attributes_out') = pipeline'.produced]_vars

\* C13, amended: process() marks the safe head as seen only after the
\* pipeline has produced attributes, and it does so every time, before they are
\* sent on attributes_out: a skipped call, a Yield or a fatal pipeline error
\* leaves the marker alone, and a failed or not-yet-completed send finds the
\* safe head already marked.
C13_SeenAfterProduced ==
    /\ [][MarkedSeenInProcess =>
            /\ pc = "stepping" /\ pc' = "send_attrs"
            /\ pipeline'.produced = pipeline.produced + 1
            /\ payload_attrs'.id = pipeline'.produced
            /\ Len(attributes_out') < pipeline'.produced
            /\ ~derivation_idle']_vars
    /\ [][(pc = "stepping" /\ pc' = "send_attrs") => ~engine_l2_safe_head'.changed]_vars
    /\ [][(pc = "send_attrs" /\ pc' # pc) =>
            engine_l2_safe_head' = engine_l2_safe_head]_vars

\* An L1 head wake found a safe head change pending, stepped the pipeline and
\* got attributes: the send has not completed and the change is marked seen.
C13_Witness ==
    /\ pc = "send_attrs"
    /\ wake.chosen = "l1_head"
    /\ "l2_safe_head" \in wake.ready
    /\ ~engine_l2_safe_head.closed
    /\ ~engine_l2_safe_head.changed
    /\ Len(attributes_out) < pipeline.produced

\* ------------------------------------------------------------------------
\* Properties of the stepping loop (checked under SpecSteps)
\* ------------------------------------------------------------------------
\* The transition is an iteration of the stepping loop that got result r.
Stepped(r) == step'.tick # step.tick /\ step'.result = r

C14_NeverMissed ==
    (/\ pc \in {"select", "send_attrs"}
     /\ ~engine_l2_safe_head.changed
     /\ ~derivation_idle)
        => stepped_on

\* C15: once attributes have been produced for a safe head, no wake causes
\* another pipeline step with it. Derivation is busy (not idle) exactly when
\* the last stepping run ended with attributes, and then stepped_on tells that
\* they were produced on the value the watch still carries: no wake enters the
\* stepping loop in that situation.
C15_NoSecondStep ==
    [][(pc = "select" /\ pc' = "step") => (derivation_idle \/ ~stepped_on)]_vars

\* C16: a Temporary error (NotEnoughData or any other) or a Reset error never
\* makes start() return an error, neither in the iteration that got it nor
\* while the reset request it leads to is sent; a Critical error returned by
\* a step ends start() with the Pipeline error and no attributes produced or
\* sent for that step.
C16_RecoverableNeverFatal ==
    /\ [][\A r \in TemporaryErrors \cup ResetErrors : Stepped(r) => pc' # "done"]_vars
    /\ [][pc = "send_reset" => pc' # "done"]_vars
    /\ [][Stepped("Critical") =>
             /\ pc' = "done" /\ exit' = "Pipeline"
             /\ attributes_out' = attributes_out
             /\ pipeline'.produced = pipeline.produced]_vars

\* C16 (amended): a Temporary error never ends start(); a Reset error ends it
\* with an error only when a call made while handling it fails: a call on the
\* pipeline (Pipeline error, nothing latched) or the send of the reset request
\* (Sender error, nothing queued, nothing latched). A Critical error returned
\* by a step always ends start() with the Pipeline error and no attributes
\* produced or sent for that step.
C16_FatalOnlyOnFailedCall ==
    /\ [][\A r \in TemporaryErrors :
             Stepped(r) => pc' \in {"step", "select"} /\ exit' = exit]_vars
    /\ [][\A r \in ResetErrors :
             Stepped(r) =>
                IF step'.ok
                THEN pc' \in {"step", "send_reset", "select"} /\ exit' = exit
                ELSE /\ pc' = "done" /\ exit' = "Pipeline"
                     /\ waiting_for_signal' = waiting_for_signal
                     /\ reset_request_tx' = reset_request_tx]_vars
    /\ [][(pc = "send_reset" /\ pc' = "done") =>
             /\ exit' = "Sender"
             /\ reset_request_tx' = reset_request_tx
             /\ waiting_for_signal' = waiting_for_signal]_vars
    /\ [][Stepped("Critical") =>
             /\ pc' = "done" /\ exit' = "Pipeline"
             /\ attributes_out' = attributes_out
             /\ pipeline'.produced = pipeline.produced
             /\ engine_l2_safe_head' = engine_l2_safe_head]_vars

\* start() has returned the Pipeline error after a Reset error whose handling
\* failed, with attributes sent before and the safe head initialized.
C16_Witness ==
    /\ pc = "done"
    /\ exit = "Pipeline"
    /\ step.result \in ResetErrors
    /\ ~step.ok
    /\ ~waiting_for_signal
    /\ Len(attributes_out) > 0

\* start() has returned the Pipeline error after a Critical error of a step
\* that followed a produced payload.
C16_WitnessCritical ==
    /\ pc = "done"
    /\ exit = "Pipeline"
    /\ step.result = "Critical"
    /\ pipeline.produced > 0

\* The attributes the loop last returned are the newest ones on attributes_out.
AttributesSent ==
    /\ Len(attributes_out) = pipeline.produced
    /\ Len(attributes_out) > 0
    /\ attributes_out[Len(attributes_out)] = payload_attrs

\* What C17 asks of the execution: EL sync complete has fired, the safe head
\* is initialized, the L1 head advances again and again, and waiting_for_signal
\* is eventually always false.
C17_Assumptions ==
    /\ <>(el_sync_complete_rx # "pending")
    /\ <>(~engine_l2_safe_head.value.zero_hash)
    /\ []<>(l1_head_updates.changed)
    /\ <>[](~waiting_for_signal)

\* C17: in every fair execution that meets the assumptions, whenever the
\* pipeline reports PreparedAttributes (the loop returned attributes, which
\* process() is about to send), these attributes are eventually sent on
\* attributes_out.
C17_EventuallySent ==
    C17_Assumptions => ((pc = "send_attrs") ~> AttributesSent)

\* C17 (amended): ... these attributes are eventually sent on attributes_out,
\* or start() returns the Sender error because the receiver of attributes_out
\* is gone.
C17_SentOrSenderError ==
    C17_Assumptions =>
        ((pc = "send_attrs") ~> (AttributesSent \/ (pc = "done" /\ exit = "Sender")))

\* The second payload's attributes have been sent after an L1 head update
\* that found EL sync complete and the safe head initialized.
C17_Witness ==
    /\ AttributesSent
    /\ pipeline.produced = MaxAttrs
    /\ pc = "select"
    /\ el_sync_complete_rx = "terminated"
    /\ ~engine_l2_safe_head.value.zero_hash
    /\ ~waiting_for_signal
    /\ ~derivation_idle

\* C18: once the cancellation token is tripped, the actor eventually returns
\* Ok from start(), wherever it was when the token was tripped: waiting in
\* the select, inside the stepping loop, or sending on one of its queues.
C18_CancelledReturnsOk ==
    cancellation ~> (pc = "done" /\ exit = "Ok")

\* ------------------------------------------------------------------------
\* Properties of the deposits-only re-attempt (checked under SpecBuildFair)
\* ------------------------------------------------------------------------
\* The forkchoice updates with attributes made so far.
FcuWithAttributes == {i \in 1..Len(log) : log[i].op = "fcu_attrs"}

\* The run of execute at depth k holds deposits-only attributes and its
\* newPayload was answered INVALID (the answer is entry i of the history).
DepositsOnlyRejected(i, k) ==
    /\ log[i].op = "new_payload"
    /\ log[i].status = "Invalid"
    /\ log[i].frame = k
    /\ is_deposits_only(IF k = 1 THEN task.attributes ELSE ReattemptAttributes(task.attributes))

\* C19: the re-attempt recurses at most one level. INVALID for attributes that
\* are already deposits-only makes that run of execute fail with
\* DepositOnlyPayloadFailed as its last interaction, without another Build
\* Task; no run is ever nested deeper than the re-attempt, a top-level execute
\* makes at most two forkchoice updates with attributes, and it always
\* returns, whatever the engine answers.
C19_OneLevel ==
    /\ [](/\ Len(stack) <= 2
          /\ FramesLogged \subseteq {1, 2}
          /\ Cardinality(FcuWithAttributes) <= 2
          /\ \A k \in 1..Len(stack) :
                (k = 2) => is_deposits_only(stack[k].attributes)
          /\ \A i \in 1..Len(log) : \A k \in {1, 2} :
                DepositsOnlyRejected(i, k) =>
                   /\ i = Len(log)
                   /\ Len(stack) <= k
                   /\ IF Len(stack) = k
                      THEN stack[k].pc = "done" /\ stack[k].ret = Err("DepositOnlyPayloadFailed")
                      ELSE /\ stack[1].reattempt = Err("DepositOnlyPayloadFailed")
                           /\ result = Err("DepositOnlyPayloadReattemptFailed"))
    /\ <>(result # NoResult)

\* The re-attempt's deposits-only payload was rejected in its turn: the outer
\* execute has returned after two forkchoice updates with attributes.
C19_Witness ==
    /\ result = Err("DepositOnlyPayloadReattemptFailed")
    /\ stack[1].reattempt = Err("DepositOnlyPayloadFailed")
    /\ Cardinality(FcuWithAttributes) = 2
    /\ log[Len(log)].frame = 2
    /\ log[Len(log)].status = "Invalid"

\* The errors a run of execute can return.
ExecuteFailures ==
    {"EngineSyncing", "ForkchoiceUpdateFailed", "MissingPayloadId", "UnexpectedPayloadStatus",
     "GetPayloadFailed", "NewPayloadFailed", "FromBlock", "DepositOnlyPayloadFailed",
     "ForkchoiceTask::EngineSyncing", "ForkchoiceTask::Failed", "MpscSend"}

HeadsOf(s) ==
    {s.unsafe_head, s.cross_unsafe_head, s.local_safe_head, s.safe_head, s.finalized_head}

\* C20: when the deposits-only re-attempt has failed, for whatever reason,
\* the outer execute has failed with DepositOnlyPayloadReattemptFailed (not
\* HoloceneInvalidFlush, not Ok), and no head is the block of the payload that
\* was rejected: the heads are those execute was entered with or, when the
\* re-attempt failed after its import, those of the deposits-only block.
C20_ReattemptFailed ==
    \A k \in 1..Len(stack) :
        (stack[k].reattempt \notin {NoResult, Ok}) =>
            /\ stack[k].reattempt.tag \in ExecuteFailures
            /\ stack[k].pc = "done"
            /\ stack[k].ret = Err("DepositOnlyPayloadReattemptFailed")
            /\ k = 1
            /\ result = Err("DepositOnlyPayloadReattemptFailed")
            /\ BlockOf(task.attributes) \notin HeadsOf(state)
            /\ \/ state = stack[1].entry
               \/ /\ stack[k].reattempt.tag \in
                        {"ForkchoiceTask::EngineSyncing", "ForkchoiceTask::Failed", "MpscSend"}
                  /\ state = CommitHeads(stack[1].entry,
                                         BlockOf(ReattemptAttributes(task.attributes)),
                                         task.is_attributes_derived)
            /\ \A i \in 1..Len(payload_rx) :
                  from_payload_and_genesis(payload_rx[i].payload) # BlockOf(task.attributes)

\* The re-attempt imported its block and then found the outbound channel
\* closed: the outer execute has returned.
C20_Witness ==
    /\ result = Err("DepositOnlyPayloadReattemptFailed")
    /\ stack[1].reattempt = Err("MpscSend")
    /\ state.unsafe_head = BlockOf(ReattemptAttributes(task.attributes))
    /\ BlockOf(task.attributes).txs # BlockOf(ReattemptAttributes(task.attributes)).txs

\* ------------------------------------------------------------------------
\* Further properties of the Build Task (checked under SpecBuild)
\* ------------------------------------------------------------------------
\* The transition is the forkchoice update with attributes of the run of
\* execute on top of the stack.
StartsBuild ==
    /\ Len(stack) > 0
    /\ Top.pc = "execute"
    /\ Len(log') = Len(log) + 1

\* C21: the forkchoice state sent with the attributes has the attributes'
\* parent as its head (whatever the unsafe head is) and the safe and finalized
\* heads of the current EngineState; EngineState itself is not modified, and
\* the build job the engine starts is one on that parent.
C21_ForkchoiceOverride ==
    [][StartsBuild =>
          LET sent == stack'[Len(stack)].forkchoice IN
          /\ Len(stack') = Len(stack)
          /\ sent.head_block_hash = Top.attributes.parent
          /\ sent.safe_block_hash = state.safe_head
          /\ sent.finalized_block_hash = state.finalized_head
          /\ state' = state
          /\ (stack'[Len(stack)].pc = "get_payload") =>
                stack'[Len(stack)].payload_id.parent = Top.attributes.parent]_vars

\* A build was started on a parent that is not the unsafe head, with safe and
\* finalized heads that differ from the parent.
C21_Witness ==
    /\ Len(stack) = 1
    /\ stack[1].pc = "get_payload"
    /\ stack[1].forkchoice.head_block_hash = stack[1].attributes.parent
    /\ stack[1].forkchoice.head_block_hash # state.unsafe_head
    /\ stack[1].forkchoice.safe_block_hash = state.safe_head
    /\ stack[1].forkchoice.safe_block_hash # stack[1].forkchoice.head_block_hash
    /\ state = stack[1].entry

\* The error of an answer outside the handled set: a forkchoice update that
\* is VALID without a payload id, or ACCEPTED from either call.
UnhandledError(e) ==
    IF e.op = "fcu_attrs" /\ e.status = "ValidNoId" THEN Err("MissingPayloadId")
    ELSE ErrMsg("UnexpectedPayloadStatus", "Accepted")

Unhandled(e) ==
    \/ e.op = "fcu_attrs" /\ e.status \in {"ValidNoId", "Accepted"}
    \/ e.op = "new_payload" /\ e.status = "Accepted"

\* C22: an answer outside the handled set makes the run of execute that got
\* it fail with MissingPayloadId (VALID without payload id) or
\* UnexpectedPayloadStatus (ACCEPTED, Holocene or not): it is the last Engine
\* API call, no run is started after it, EngineState is as execute found it
\* and nothing was sent outbound.
C22_UnhandledStatus ==
    \A i \in 1..Len(log) :
        Unhandled(log[i]) =>
            /\ i = Len(log)
            /\ Len(stack) <= log[i].frame
            /\ IF Len(stack) = log[i].frame
               THEN /\ stack[Len(stack)].pc = "done"
                    /\ stack[Len(stack)].ret = UnhandledError(log[i])
               ELSE /\ stack[1].reattempt = UnhandledError(log[i])
                    /\ result = Err("DepositOnlyPayloadReattemptFailed")
            /\ state = stack[1].entry
            /\ payload_rx = <<>>

\* newPayload answered ACCEPTED for Holocene-active attributes with a user
\* transaction, and execute has returned.
C22_Witness ==
    /\ result = ErrMsg("UnexpectedPayloadStatus", "Accepted")
    /\ log[Len(log)].op = "new_payload"
    /\ is_holocene_active(task.attributes.timestamp)
    /\ ~is_deposits_only(task.attributes)
    /\ task.payload_tx = "Some"

\* The transition is a newPayload of the run on top of the stack, answered
\* with the given status.
ImportAnswered(status) ==
    /\ Len(stack) > 0
    /\ Top.pc = "new_payload"
    /\ Len(log') > Len(log)
    /\ log'[Len(log) + 1].status = status

\* What follows an answer that counts as imported: the envelope is lifted to
\* a block reference and the heads are advanced to it (the safe heads too
\* when the attributes are derived) with the canonicalizing forkchoice update
\* next, or the lift fails and nothing changes; no run of execute is started.
Imported ==
    LET new == from_payload_and_genesis(Top.envelope.payload)
        top == stack'[Len(stack)]
    IN /\ Len(stack') = Len(stack)
       /\ \/ /\ top.pc = "canonicalize"
             /\ top.new_block_ref = new
             /\ new = BlockOf(Top.attributes)
             /\ state'.unsafe_head = new
             /\ state'.cross_unsafe_head = new
             /\ state'.local_safe_head =
                   IF task.is_attributes_derived THEN new ELSE state.local_safe_head
             /\ state'.safe_head = IF task.is_attributes_derived THEN new ELSE state.safe_head
             /\ state'.finalized_head = state.finalized_head
          \/ /\ top.pc = "done"
             /\ top.ret = Err("FromBlock")
             /\ state' = state

\* The run at depth k had its newPayload answered SYNCING and went on.
ImportedSyncing(k) ==
    \E i \in 1..Len(log) :
        log[i].op = "new_payload" /\ log[i].status = "Syncing" /\ log[i].frame = k /\ log[i].ok

\* C23: a newPayload answered SYNCING is treated like one answered VALID: the
\* payload counts as imported, the envelope is lifted, the heads are advanced,
\* the canonicalizing forkchoice update runs and the envelope is enqueued (when
\* a channel is configured); the run ends with Ok unless the canonicalizing
\* update or the send fails, and there is no re-attempt.
C23_SyncingImports ==
    /\ [][(ImportAnswered("Syncing") \/ ImportAnswered("Valid")) => Imported]_vars
    /\ [](\A k \in 1..Len(stack) :
            (ImportedSyncing(k) /\ stack[k].pc = "done") =>
                /\ k = Len(stack)
                /\ \E j \in 1..Len(log) : log[j].op = "fcu_canon" /\ log[j].frame = k
                /\ stack[k].ret.tag \in
                      {"Ok", "ForkchoiceTask::EngineSyncing", "ForkchoiceTask::Failed", "MpscSend"}
                /\ (stack[k].ret = Ok /\ task.payload_tx = "Some") =>
                      payload_rx = <<stack[k].envelope>>
                /\ (stack[k].ret = Ok) => state.unsafe_head = BlockOf(stack[k].attributes))

\* execute returned Ok for derived attributes whose payload the engine
\* answered SYNCING: heads advanced, envelope enqueued.
C23_Witness ==
    /\ result = Ok
    /\ ImportedSyncing(1)
    /\ task.is_attributes_derived
    /\ state.safe_head = BlockOf(task.attributes)
    /\ state.unsafe_head = BlockOf(task.attributes)
    /\ payload_rx = <<stack[1].envelope>>

\* The last interaction of the run at depth k.
LastEvent(k) == FrameEvents(k)[Len(FrameEvents(k))]

\* The heads stand at the block of the run at depth k, which is not where
\* execute found them.
HeadsAdvanced(k) ==
    /\ Committed(k)
    /\ state.unsafe_head = BlockOf(stack[k].attributes)
    /\ state.cross_unsafe_head = BlockOf(stack[k].attributes)
    /\ state.unsafe_head # stack[1].entry.unsafe_head
    /\ task.is_attributes_derived =>
          /\ state.local_safe_head = BlockOf(stack[k].attributes)
          /\ state.safe_head = BlockOf(stack[k].attributes)
          /\ state.safe_head # stack[1].entry.safe_head

\* C24: with an outbound channel configured and closed, execute fails with
\* MpscSend; that failure, like a failure of the canonicalizing Forkchoice
\* Task (which execute returns as it is), comes after the heads were advanced
\* to the new block, and they stay advanced. Without a channel no send is
\* attempted and execute succeeds once the block is canonical.
C24_LateFailures ==
    \A k \in 1..Len(stack) :
        (stack[k].pc = "done" /\ FrameEvents(k) # <<>>) =>
            /\ (LastEvent(k).op = "send" /\ LastEvent(k).status = "Closed") =>
                  /\ task.payload_tx = "Some"
                  /\ stack[k].ret = Err("MpscSend")
                  /\ HeadsAdvanced(k)
                  /\ payload_rx = <<>>
            /\ (stack[k].ret = Err("MpscSend")) =>
                  LastEvent(k).op = "send" /\ LastEvent(k).status = "Closed"
            /\ (LastEvent(k).op = "fcu_canon" /\ LastEvent(k).status # "Valid") =>
                  /\ stack[k].ret = ForkchoiceTaskResult(LastEvent(k).status)
                  /\ stack[k].ret # Ok
                  /\ HeadsAdvanced(k)
                  /\ payload_rx = <<>>
            /\ (task.payload_tx = "None") =>
                  /\ \A i \in 1..Len(log) : log[i].op # "send"
                  /\ payload_rx = <<>>
                  /\ (LastEvent(k).op = "fcu_canon" /\ LastEvent(k).status = "Valid") =>
                        stack[k].ret = Ok /\ HeadsAdvanced(k)

\* execute has failed on the closed channel with the safe head advanced.
C24_Witness ==
    /\ result = Err("MpscSend")
    /\ task.is_attributes_derived
    /\ HeadsAdvanced(1)
    /\ stack[1].entry.unsafe_head.number = MaxNum
    /\ payload_rx = <<>>

\* ------------------------------------------------------------------------
\* Further properties of the stepping loop (checked under SpecSteps)
\* ------------------------------------------------------------------------
\* The Reset errors other than HoloceneActivation.
PlainResets == ResetErrors \ {"Reset(HoloceneActivation)"}

SignalReceived == Len(derivation_signal_rx'.queue) < Len(derivation_signal_rx.queue)

\* C26: every signal received on derivation_signal_rx is handed to the
\* pipeline exactly once, after which waiting_for_signal is false, whatever
\* the variant and whatever the pipeline answers; a pipeline error on a signal
\* never makes start() return.
C26_SignalForwarded ==
    /\ [][SignalReceived =>
             /\ derivation_signal_rx'.queue = Tail(derivation_signal_rx.queue)
             /\ delivery'.signal = Head(derivation_signal_rx.queue)
             /\ delivery'.count = delivery.count + 1
             /\ pipeline'.last_signal = Head(derivation_signal_rx.queue)
             /\ ~waiting_for_signal'
             /\ pc = "select" /\ pc' = "select"
             /\ exit' = exit
             /\ derivation_idle' = derivation_idle]_vars
    /\ [][(delivery' # delivery) => SignalReceived]_vars
    /\ [](delivery.count + Len(derivation_signal_rx.queue) = signals_sent)

\* A FlushChannel signal that the pipeline answered with an error has cleared
\* the latch a reset request had set, and the actor is back at the select.
C26_Witness ==
    /\ delivery.signal = "FlushChannel"
    /\ ~delivery.ok
    /\ delivery.count = 1
    /\ reset_request_tx = 1
    /\ ~waiting_for_signal
    /\ pc = "select"
    /\ exit = "none"

\* ------------------------------------------------------------------------
\* derivation_idle (checked under SpecSteps)
\* ------------------------------------------------------------------------
\* The transition is produce_next_attributes returning Yield to process():
\* on a Temporary error other than NotEnoughData, or after a Reset error other
\* than HoloceneActivation was latched (with the reset request sent where one
\* is due).
YieldReturned ==
    \/ Stepped("Temporary(Eof)")
    \/ \E r \in PlainResets : Stepped(r) /\ step'.ok /\ pc' = "select"
    \/ pc = "send_reset" /\ pc' = "select"

\* The transition is produce_next_attributes returning attributes.
AttributesReturned == Stepped("PreparedAttributes")

\* C27: derivation_idle is true initially, becomes true exactly when
\* produce_next_attributes returns Yield and false exactly when it returns
\* attributes; skipped process() calls, fatal errors and signal delivery leave
\* it alone. So between stepping runs it is true iff the last run yielded
\* (or none has run).
C27_IdleIffYielded ==
    /\ [][YieldReturned => derivation_idle']_vars
    /\ [][AttributesReturned => ~derivation_idle']_vars
    /\ [][(derivation_idle' # derivation_idle) => (YieldReturned \/ AttributesReturned)]_vars
    /\ [][(pc' = "done" \/ (pc = "select" /\ pc' = "select")) =>
             derivation_idle' = derivation_idle]_vars
    /\ []((pc \in {"select", "send_attrs"}) =>
             (derivation_idle <=> step.result # "PreparedAttributes"))

\* Derivation went idle on Eof after a run that had produced attributes.
C27_Witness ==
    /\ pc = "select"
    /\ derivation_idle
    /\ step.result = "Temporary(Eof)"
    /\ Len(attributes_out) = 1
    /\ pipeline.produced = 1

\* ------------------------------------------------------------------------
\* How start() returns (checked under SpecActor)
\* ------------------------------------------------------------------------
\* recv() on derivation_signal_rx would return None.
SignalChannelClosed == derivation_signal_rx.closed /\ derivation_signal_rx.queue = <<>>

\* changed() on l1_head_updates would return an error.
L1WatchClosed == l1_head_updates.closed /\ ~l1_head_updates.changed

\* The transition runs one of the data branches of the select.
DataBranchRuns ==
    \/ l1_head_updates.changed /\ ~l1_head_updates'.changed
    \/ engine_l2_safe_head.changed /\ ~engine_l2_safe_head'.changed
    \/ el_sync_complete_rx # "terminated" /\ el_sync_complete_rx' = "terminated"
    \/ pc' \in {"step", "stepping", "send_attrs", "send_reset"}

\* C28: start() returns Ok only when the cancellation token has fired or the
\* L1 head watch is closed, and SignalReceiveFailed when and only when the
\* signal channel is observed closed. Short of cancellation a closed signal
\* channel is fatal whatever else is pending (an L1 head update included): no
\* data branch runs before start() returns. A closed L1 watch ends start()
\* with Ok without the pipeline being stepped.
C28_Returns ==
    /\ []((pc = "done" /\ exit = "Ok") => (cancellation \/ L1WatchClosed))
    /\ []((exit = "SignalReceiveFailed") => (pc = "done" /\ SignalChannelClosed))
    /\ []((pc = "done" /\ wake.chosen = "signal") => exit = "SignalReceiveFailed")
    /\ [][(pc = "select" /\ SignalChannelClosed /\ ~cancellation) =>
             /\ ~DataBranchRuns
             /\ (pc' # pc) => (pc' = "done" /\ exit' = "SignalReceiveFailed")]_vars
    /\ [][(pc = "select" /\ pc' = "done" /\ exit' = "Ok") =>
             /\ wake'.chosen \in {"cancellation", "l1_head"}
             /\ (wake'.chosen = "l1_head") => (L1WatchClosed /\ ~cancellation)
             /\ pipeline' = pipeline
             /\ attributes_out' = attributes_out
             /\ reset_request_tx' = reset_request_tx
             /\ derivation_idle' = derivation_idle]_vars
    /\ [][(pc = "select" /\ L1WatchClosed /\ wake'.chosen = "l1_head" /\ wake' # wake) =>
             (pc' = "done" /\ exit' = "Ok")]_vars

\* start() has returned SignalReceiveFailed with an L1 head update and a new
\* safe head pending and EL sync complete.
C28_Witness ==
    /\ pc = "done"
    /\ exit = "SignalReceiveFailed"
    /\ wake.chosen = "signal"
    /\ {"signal", "l1_head", "l2_safe_head"} \subseteq wake.ready
    /\ l1_head_updates.changed
    /\ engine_l2_safe_head.changed
    /\ el_sync_complete_rx = "terminated"
    /\ ~cancellation

\* ------------------------------------------------------------------------
\* The outbound payload channel (checked under SpecBuild)
\* ------------------------------------------------------------------------
\* The newPayload answers that preceded the enqueuing of an envelope: those of
\* the run that made the send.
SentAfter ==
    {log[i].status : i \in {j \in 1..Len(log) :
        /\ log[j].op = "new_payload"
        /\ \E n \in 1..Len(log) :
              log[n].op = "send" /\ log[n].status = "Sent" /\ log[n].frame = log[j].frame}}

\* C29: one top-level execute enqueues at most one envelope on the outbound
\* channel, and only that of a payload whose newPayload was answered VALID or
\* SYNCING. In the Holocene fallback the one envelope is that of the
\* deposits-only block; the envelope of the payload the engine rejected as
\* INVALID is never enqueued.
C29_OneEnvelope ==
    /\ Len(payload_rx) <= 1
    /\ Len(payload_rx) = Cardinality({i \in 1..Len(log) :
                                        log[i].op = "send" /\ log[i].status = "Sent"})
    /\ (payload_rx # <<>>) =>
          /\ SentAfter \subseteq {"Valid", "Syncing"}
          /\ SentAfter # {}
          /\ task.payload_tx = "Some"
          /\ IF RejectedInvalid(1)
             THEN /\ Reattemptable(task.attributes)
                  /\ from_payload_and_genesis(payload_rx[1].payload) =
                        BlockOf(ReattemptAttributes(task.attributes))
                  /\ from_payload_and_genesis(payload_rx[1].payload) # BlockOf(task.attributes)
                  /\ payload_rx[1].payload.parent_hash = task.attributes.parent
             ELSE from_payload_and_genesis(payload_rx[1].payload) = BlockOf(task.attributes)
          /\ state.unsafe_head = from_payload_and_genesis(payload_rx[1].payload)

\* The fallback enqueued the envelope of the deposits-only block, and the
\* outer execute has returned.
C29_Witness ==
    /\ result = Err("HoloceneInvalidFlush")
    /\ Len(payload_rx) = 1
    /\ RejectedInvalid(1)
    /\ from_payload_and_genesis(payload_rx[1].payload) =
          BlockOf(ReattemptAttributes(task.attributes))
    /\ task.attributes.txs # ReattemptAttributes(task.attributes).txs

====
